---- MODULE Spec2Model ----
(***************************************************************************)
(* Bearer-token gate (main-minimal.py, auth_middleware) and the scope-     *)
(* gated in-memory to-do tools (server.py).                                *)
(*                                                                         *)
(* Python strings that the code takes apart (the Authorization header,     *)
(* the decimal todo ids) are sequences of one-character strings.  An       *)
(* Optional value is <<>> for None and <<v>> for a present value v.        *)
(***************************************************************************)
EXTENDS Integers, Sequences, FiniteSets, TLC

VARIABLES request, response, validated, forwarded,
          todos, call, ret, assigned

vars == <<request, response, validated, forwarded, todos, call, ret, assigned>>

mwVars == <<request, response, validated, forwarded>>

todoVars == <<todos, call, ret, assigned>>

(***************************************************************************)
(* Bounds                                                                  *)
(***************************************************************************)
\* longest Authorization header, counted in chunks of HeaderChunks
MaxChunks == 2

\* most todos the store holds before create_todo is no longer offered
MaxTodos == 2

(***************************************************************************)
(* str operations used by auth_middleware                                  *)
(***************************************************************************)
\* the literal "Bearer " of lines 40 and 42
BearerPrefix == <<"B", "e", "a", "r", "e", "r", " ">>

\* whitespace characters str.strip() removes
Whitespace == {" ", "\t", "\n", "\r"}

\* str.startswith
StartsWith(s, p) == Len(s) >= Len(p) /\ SubSeq(s, 1, Len(p)) = p

\* str.find: index (1-based) of the first occurrence of sep in s, 0 if none
Find(s, sep) ==
    LET hits == {i \in 1..(Len(s) - Len(sep) + 1) : SubSeq(s, i, i + Len(sep) - 1) = sep}
    IN  IF hits = {} THEN 0 ELSE CHOOSE i \in hits : \A j \in hits : i <= j

\* s.split(sep, 1): at most one split, at the first occurrence of sep
Split1(s, sep) ==
    LET i == Find(s, sep)
    IN  IF i = 0 THEN <<s>>
        ELSE <<SubSeq(s, 1, i - 1), SubSeq(s, i + Len(sep), Len(s))>>

RECURSIVE LStrip(_)
LStrip(s) == IF s # <<>> /\ Head(s) \in Whitespace THEN LStrip(Tail(s)) ELSE s

RECURSIVE RStrip(_)
RStrip(s) ==
    IF s # <<>> /\ s[Len(s)] \in Whitespace THEN RStrip(SubSeq(s, 1, Len(s) - 1)) ELSE s

\* str.strip()
Strip(s) == LStrip(RStrip(s))

(***************************************************************************)
(* main-minimal.py                                                         *)
(***************************************************************************)
PORT == 3002

RESOURCE_METADATA_URL ==
    [scheme |-> "http", host |-> "localhost", port |-> PORT,
     path |-> "/.well-known/oauth-protected-resource"]

WWW_HEADER ==
    [name |-> "WWW-Authenticate", scheme |-> "Bearer", realm |-> "OAuth",
     resource_metadata |-> RESOURCE_METADATA_URL]

\* the set literal of line 37
ExemptPaths_OnlyHealth == {"/health"}

ExemptPaths == {"/health", "/.well-known/oauth-protected-resource"}

\* request paths: the two exempt ones, the mounted endpoint, near misses
Paths == {"/health", "/.well-known/oauth-protected-resource", "/", "/health/"}

\* pieces Authorization header values are built from
HeaderChunks ==
    {BearerPrefix, <<"b", "e", "a", "r", "e", "r", " ">>, <<"B", "e", "a", "r", "e", "r">>,
     <<"a">>, <<" ">>}

RECURSIVE Flatten(_)
Flatten(ss) == IF ss = <<>> THEN <<>> ELSE Head(ss) \o Flatten(Tail(ss))

HeaderValues ==
    {Flatten(cs) : cs \in UNION {[1..n -> HeaderChunks] : n \in 0..MaxChunks}}

\* request.headers.get("authorization"): None or a str
AuthHeaders == {<<>>} \cup {<<h>> : h \in HeaderValues}

Requests == [path : Paths, authorization : AuthHeaders]

\* what validate_access_token does: return truthy, return falsy, raise
ValidatorOutcomes == {"truthy", "falsy", "raises"}

\* line 40: not auth_header or not auth_header.startswith("Bearer ")
MissingBearer_PresenceOnly(auth_header) == auth_header = <<>> \/ auth_header[1] = <<>>

MissingBearer(auth_header) ==
    \/ auth_header = <<>>
    \/ auth_header[1] = <<>>
    \/ ~StartsWith(auth_header[1], BearerPrefix)

\* line 42: auth_header.split("Bearer ", 1)[0].strip()
ExtractToken(auth_header) == Strip(Split1(auth_header[1], BearerPrefix)[1])

\* lines 44-46: the exception the try block ends with, None if it completes
TryBlock_IgnoreResult(outcome) ==
    IF outcome = "raises" THEN <<"ValidatorError">> ELSE <<>>

TryBlock(outcome) ==
    IF outcome = "raises" THEN <<"ValidatorError">>
    ELSE IF outcome = "falsy" THEN <<"ValueError">>
    ELSE <<>>

\* line 47: except Exception
ExceptException_ValueErrorOnly(exc) == exc = "ValueError"

ExceptException(exc) == exc \in {"ValueError", "ValidatorError"}

\* Response(body, status_code=401, headers=WWW_HEADER, media_type=...)
Response401(body) ==
    [status_code |-> 401, body |-> body, headers |-> WWW_HEADER,
     media_type |-> "application/json"]

\* await call_next(request): the downstream response to the request passed on
NextResponse(req) == [call_next |-> req]

\* an exception leaving auth_middleware
Escapes(exc) == [exception |-> exc]

auth_middleware(req, outcome) ==
    /\ request' = req
    /\ IF req.path \in ExemptPaths
       THEN /\ validated' = <<>>
            /\ forwarded' = <<req>>
            /\ response' = NextResponse(req)
       ELSE IF MissingBearer(req.authorization)
       THEN /\ validated' = <<>>
            /\ forwarded' = <<>>
            /\ response' = Response401("{\"error\":\"Missing Bearer token\"}")
       ELSE LET token == ExtractToken(req.authorization)
                exc == TryBlock(outcome)
            IN  /\ validated' = <<[token |-> token, result |-> outcome]>>
                /\ IF exc = <<>>
                   THEN /\ forwarded' = <<req>>
                        /\ response' = NextResponse(req)
                   ELSE IF ExceptException(exc[1])
                   THEN /\ forwarded' = <<>>
                        /\ response' = Response401("{\"error\":\"Token validation failed\"}")
                   ELSE /\ forwarded' = <<>>
                        /\ response' = Escapes(exc[1])
    /\ UNCHANGED todoVars

NoRequest == [path |-> "", authorization |-> <<>>]

NoResponse == [none |-> TRUE]

InitMw ==
    /\ request = NoRequest
    /\ response = NoResponse
    /\ validated = <<>>
    /\ forwarded = <<>>

(***************************************************************************)
(* server.py                                                               *)
(***************************************************************************)
Digits == <<"0", "1", "2", "3", "4", "5", "6", "7", "8", "9">>

\* str(n) for n >= 0: the decimal digits of n
RECURSIVE Str(_)
Str(n) == IF n < 10 THEN <<Digits[n + 1]>> ELSE Str(n \div 10) \o <<Digits[(n % 10) + 1]>>

\* dict: the entries in insertion order
DictKeys(d) == {d[i].key : i \in 1..Len(d)}

DictGet(d, k) == d[CHOOSE i \in 1..Len(d) : d[i].key = k].value

\* d[k] = v: a present key keeps its place, a new key goes last
DictSet(d, k, v) ==
    IF k \in DictKeys(d)
    THEN [i \in 1..Len(d) |-> IF d[i].key = k THEN [key |-> k, value |-> v] ELSE d[i]]
    ELSE Append(d, [key |-> k, value |-> v])

\* d.pop(k) for a present key: the dict without it
DictPop_Last(d, k) == SubSeq(d, 1, Len(d) - 1)

DictPop(d, k) == SelectSeq(d, LAMBDA e : e.key # k)

\* list(d.values())
DictValues(d) == [i \in 1..Len(d) |-> d[i].value]

ScopeNames == {"todo:read", "todo:write"}

\* token.scopes of the ambient access token
TokenScopes == SUBSET ScopeNames

Texts == {"buy milk", ""}

\* text: str = None
OptTexts == {<<>>} \cup {<<t>> : t \in Texts}

\* done: bool = None
OptDones == {<<>>, <<TRUE>>, <<FALSE>>}

\* todo_id arguments: ids create_todo can assign, and one it never does
TodoIds == {Str(n) : n \in 1..(MaxTodos + 1)} \cup {<<"0", "1">>}

\* the character U+0060 of the message (a string literal cannot hold it)
GraveAccent == "U+0060"

\* _require_scope: None, or the message
require_scope_AlwaysNone(scope, scopes) == <<>>

require_scope(scope, scopes) ==
    IF scope \notin scopes
    THEN <<(<<"Insufficient permissions: ", GraveAccent, scope, GraveAccent,
              " scope required.">>)>>
    ELSE <<>>

\* if error: (None and the empty string are falsy)
Truthy(error) == error # <<>> /\ error[1] # <<>>

NotFound == [error |-> <<"Todo not found">>]

list_todos(scopes) ==
    LET error == require_scope("todo:read", scopes)
    IN  /\ call' = [op |-> "list_todos", scopes |-> scopes]
        /\ ret' = IF Truthy(error) THEN [error |-> error[1]]
                  ELSE [todos |-> DictValues(todos)]
        /\ UNCHANGED <<todos, assigned>>
        /\ UNCHANGED mwVars

\* line 45: str(len(todos) + 1)
NewId_Len(d) == Str(Len(d))

NewId(d) == Str(Len(d) + 1)

create_todo(text, scopes) ==
    LET error == require_scope("todo:write", scopes)
        todo_id == NewId(todos)
    IN  /\ call' = [op |-> "create_todo", text |-> text, scopes |-> scopes]
        /\ IF Truthy(error)
           THEN /\ ret' = [error |-> error[1]]
                /\ UNCHANGED <<todos, assigned>>
           ELSE /\ Len(todos) < MaxTodos
                /\ todos' = DictSet(todos, todo_id,
                                    [id |-> todo_id, text |-> text, done |-> FALSE])
                /\ ret' = [todo |-> DictGet(todos', todo_id)]
                /\ assigned' = assigned \cup {todo_id}
        /\ UNCHANGED mwVars

\* lines 58-61: the record after the partial update
Updated_TruthyText(rec, text, done) ==
    [id |-> rec.id,
     text |-> IF text # <<>> /\ text[1] # "" THEN text[1] ELSE rec.text,
     done |-> IF done # <<>> THEN done[1] ELSE rec.done]

Updated(rec, text, done) ==
    [id |-> rec.id,
     text |-> IF text # <<>> THEN text[1] ELSE rec.text,
     done |-> IF done # <<>> THEN done[1] ELSE rec.done]

update_todo(todo_id, text, done, scopes) ==
    LET error == require_scope("todo:write", scopes)
    IN  /\ call' = [op |-> "update_todo", todo_id |-> todo_id, text |-> text,
                    done |-> done, scopes |-> scopes]
        /\ IF Truthy(error)
           THEN /\ ret' = [error |-> error[1]]
                /\ UNCHANGED todos
           ELSE IF todo_id \notin DictKeys(todos)
           THEN /\ ret' = NotFound
                /\ UNCHANGED todos
           ELSE /\ todos' = DictSet(todos, todo_id, Updated(DictGet(todos, todo_id), text, done))
                /\ ret' = [todo |-> DictGet(todos', todo_id)]
        /\ UNCHANGED assigned
        /\ UNCHANGED mwVars

\* line 73: the store after todos.pop(todo_id)
Popped(d, todo_id) == DictPop(d, todo_id)

delete_todo(todo_id, scopes) ==
    LET error == require_scope("todo:write", scopes)
    IN  /\ call' = [op |-> "delete_todo", todo_id |-> todo_id, scopes |-> scopes]
        /\ IF Truthy(error)
           THEN /\ ret' = [error |-> error[1]]
                /\ UNCHANGED todos
           ELSE IF todo_id \notin DictKeys(todos)
           THEN /\ ret' = NotFound
                /\ UNCHANGED todos
           ELSE /\ ret' = [deleted |-> DictGet(todos, todo_id)]
                /\ todos' = Popped(todos, todo_id)
        /\ UNCHANGED assigned
        /\ UNCHANGED mwVars

NoCall == [op |-> "none"]

NoReturn == [none |-> TRUE]

InitTodo ==
    /\ todos = <<>>
    /\ call = NoCall
    /\ ret = NoReturn
    /\ assigned = {}

Init == InitMw /\ InitTodo

NextMw == \E req \in Requests, outcome \in ValidatorOutcomes : auth_middleware(req, outcome)

NextTodo ==
    \E scopes \in TokenScopes :
        \/ list_todos(scopes)
        \/ \E text \in Texts : create_todo(text, scopes)
        \/ \E todo_id \in TodoIds, text \in OptTexts, done \in OptDones :
               update_todo(todo_id, text, done, scopes)
        \/ \E todo_id \in TodoIds : delete_todo(todo_id, scopes)

SpecMw == Init /\ [][NextMw]_vars

SpecTodo == Init /\ [][NextTodo]_vars

(***************************************************************************)
(* Properties of auth_middleware, checked under SpecMw                     *)
(***************************************************************************)
Handled == response # NoResponse

NonExempt == request.path \notin {"/health", "/.well-known/oauth-protected-resource"}

\* the Authorization header is present and begins with the seven characters "Bearer "
CarriesBearer ==
    /\ request.authorization # <<>>
    /\ Len(request.authorization[1]) >= 7
    /\ \A i \in 1..7 : request.authorization[1][i] = BearerPrefix[i]

Challenge401(body) ==
    /\ DOMAIN response = {"status_code", "body", "headers", "media_type"}
    /\ response.status_code = 401
    /\ response.body = body
    /\ response.headers = WWW_HEADER

\* C1: a non-exempt request whose Authorization header is absent, empty or not
\* prefixed "Bearer " gets the 401 "Missing Bearer token" response with the
\* challenge header; the validator is not called and nothing is forwarded.
C1_MissingBearer ==
    (Handled /\ NonExempt /\ ~CarriesBearer) =>
        /\ Challenge401("{\"error\":\"Missing Bearer token\"}")
        /\ validated = <<>>
        /\ forwarded = <<>>

\* a non-exempt request with a present header of another scheme was answered
C1_Witness ==
    /\ Handled /\ NonExempt
    /\ request.authorization = <<(<<"b", "e", "a", "r", "e", "r", " ", "a">>)>>
    /\ Challenge401("{\"error\":\"Missing Bearer token\"}")

\* C2: for a non-exempt request carrying a "Bearer " header the validator is
\* called exactly once, and if it returned false or raised, the response is the
\* 401 "Token validation failed" with the challenge header, nothing is
\* forwarded and no exception leaves the middleware.
C2_ValidationFailed ==
    (Handled /\ NonExempt /\ CarriesBearer) =>
        /\ Len(validated) = 1
        /\ validated[1].result \in {"falsy", "raises"} =>
               /\ Challenge401("{\"error\":\"Token validation failed\"}")
               /\ forwarded = <<>>
               /\ "exception" \notin DOMAIN response

\* the validator raised on a Bearer request and the 401 was returned
C2_Witness ==
    /\ Handled /\ NonExempt /\ CarriesBearer
    /\ Len(validated) = 1 /\ validated[1].result = "raises"
    /\ Challenge401("{\"error\":\"Token validation failed\"}")

\* C3: a non-exempt request is forwarded iff it carries a "Bearer " header and
\* the validator accepted; a forwarded request is passed on unchanged, once.
C3_ForwardIffAccepted ==
    (Handled /\ NonExempt) =>
        /\ forwarded # <<>> <=>
               /\ CarriesBearer
               /\ Len(validated) = 1
               /\ validated[1].result = "truthy"
        /\ forwarded # <<>> => (forwarded = <<request>> /\ response = [call_next |-> request])

\* an accepted Bearer request was forwarded
C3_Witness ==
    /\ Handled /\ NonExempt /\ CarriesBearer
    /\ validated # <<>> /\ validated[1].result = "truthy"
    /\ forwarded = <<request>>

\* C4: a request to /health or /.well-known/oauth-protected-resource reaches
\* the next handler whatever its Authorization header, and the validator is
\* not called for it.
C4_ExemptPaths ==
    (Handled /\ ~NonExempt) =>
        /\ forwarded = <<request>>
        /\ response = [call_next |-> request]
        /\ validated = <<>>

\* the metadata path was requested without any Authorization header
C4_Witness ==
    /\ Handled
    /\ request.path = "/.well-known/oauth-protected-resource"
    /\ request.authorization = <<>>
    /\ forwarded = <<request>>

\* C8: the token handed to the validator is the part of the header after the
\* "Bearer " prefix, whitespace-trimmed.
C8_TokenIsHeaderSuffix ==
    (Handled /\ NonExempt /\ CarriesBearer /\ validated # <<>>) =>
        validated[1].token =
            Strip(SubSeq(request.authorization[1], 8, Len(request.authorization[1])))

(***************************************************************************)
(* Properties of the to-do tools, checked under SpecTodo                   *)
(***************************************************************************)
RequiredScope(op) == IF op = "list_todos" THEN "todo:read" ELSE "todo:write"

Insufficient(scope) ==
    [error |-> <<"Insufficient permissions: ", GraveAccent, scope, GraveAccent,
                 " scope required.">>]

IsInsufficient(r) == \E scope \in ScopeNames : r = Insufficient(scope)

\* C5: without the required scope each tool returns the insufficient-
\* permissions error and leaves the store unchanged, whatever its arguments;
\* with the scope the call is not refused by the scope gate.
C5_ScopeGate ==
    [][ IF RequiredScope(call'.op) \notin call'.scopes
        THEN ret' = Insufficient(RequiredScope(call'.op)) /\ todos' = todos
        ELSE ~IsInsufficient(ret') ]_vars

\* delete_todo of an unknown id with a read-only token was refused for the scope
C5_Witness ==
    /\ call.op = "delete_todo"
    /\ call.scopes = {"todo:read"}
    /\ call.todo_id \notin DictKeys(todos)
    /\ ret = Insufficient("todo:write")

ReadWrite == {"todo:read", "todo:write"}

Todo1(text, done) == [id |-> <<"1">>, text |-> text, done |-> done]

\* C6: with both scopes, from the empty store: create_todo(t) returns
\* {id "1", text t, done false} and list_todos returns the stored records;
\* update_todo("1", done=true) then returns {id "1", text t, done true};
\* delete_todo("1") then returns that record and no record with id "1" remains.
C6_RoundTrip ==
    [][ /\ (call'.op = "create_todo" /\ call'.scopes = ReadWrite /\ todos = <<>>) =>
               /\ ret' = [todo |-> Todo1(call'.text, FALSE)]
               /\ DictValues(todos') = <<Todo1(call'.text, FALSE)>>
        /\ (call'.op = "list_todos" /\ call'.scopes = ReadWrite) =>
               ret' = [todos |-> DictValues(todos)]
        /\ \A t \in Texts :
             /\ ( /\ DictValues(todos) = <<Todo1(t, FALSE)>>
                  /\ call' = [op |-> "update_todo", todo_id |-> <<"1">>, text |-> <<>>,
                              done |-> <<TRUE>>, scopes |-> ReadWrite] ) =>
                    /\ ret' = [todo |-> Todo1(t, TRUE)]
                    /\ DictValues(todos') = <<Todo1(t, TRUE)>>
             /\ ( /\ DictValues(todos) = <<Todo1(t, TRUE)>>
                  /\ call' = [op |-> "delete_todo", todo_id |-> <<"1">>,
                              scopes |-> ReadWrite] ) =>
                    /\ ret' = [deleted |-> Todo1(t, TRUE)]
                    /\ \A i \in 1..Len(todos') : DictValues(todos')[i].id # <<"1">> ]_vars

\* the record created as "1" and marked done was deleted, leaving the store empty
C6_Witness ==
    /\ call = [op |-> "delete_todo", todo_id |-> <<"1">>, scopes |-> ReadWrite]
    /\ ret = [deleted |-> Todo1("buy milk", TRUE)]
    /\ todos = <<>>

\* C7: with todo:write, update_todo and delete_todo of an id that is not a key
\* of the store return "Todo not found" and leave the store unchanged; a
\* delete_todo that directly follows a successful delete_todo of the same id
\* returns "Todo not found".
C7_NotFound ==
    [][ /\ ( /\ call'.op \in {"update_todo", "delete_todo"}
             /\ "todo:write" \in call'.scopes
             /\ call'.todo_id \notin DictKeys(todos) ) =>
               (ret' = [error |-> <<"Todo not found">>] /\ todos' = todos)
        /\ ( /\ call.op = "delete_todo" /\ DOMAIN ret = {"deleted"}
             /\ call'.op = "delete_todo" /\ call'.todo_id = call.todo_id
             /\ "todo:write" \in call'.scopes ) =>
               ret' = [error |-> <<"Todo not found">>] ]_vars

\* an id that was created and deleted was deleted again
C7_Witness ==
    /\ call.op = "delete_todo"
    /\ "todo:write" \in call.scopes
    /\ call.todo_id \in assigned
    /\ call.todo_id \notin DictKeys(todos)
    /\ ret = [error |-> <<"Todo not found">>]

\* C9: a successful create_todo assigns str(count+1), which is the id of no
\* stored todo and of no todo created earlier, and the store grows by one.
C9_IdsNeverReused ==
    [][ (call'.op = "create_todo" /\ "todo:write" \in call'.scopes) =>
            /\ ret'.todo.id = Str(Len(todos) + 1)
            /\ ret'.todo.id \notin DictKeys(todos)
            /\ ret'.todo.id \notin assigned
            /\ Len(todos') = Len(todos) + 1 ]_vars

\* C10: with todo:write and a stored id, update_todo sets exactly the fields
\* given, keeps the id, the omitted fields, every other todo and the set of
\* ids, and returns the record as stored afterwards.
C10_PartialUpdate ==
    [][ ( /\ call'.op = "update_todo"
          /\ "todo:write" \in call'.scopes
          /\ call'.todo_id \in DictKeys(todos) ) =>
            LET old == DictGet(todos, call'.todo_id)
            IN  /\ DictKeys(todos') = DictKeys(todos)
                /\ \A k \in DictKeys(todos) \ {call'.todo_id} :
                       DictGet(todos', k) = DictGet(todos, k)
                /\ LET new == DictGet(todos', call'.todo_id)
                   IN  /\ new.id = old.id
                       /\ new.text = (IF call'.text = <<>> THEN old.text ELSE call'.text[1])
                       /\ new.done = (IF call'.done = <<>> THEN old.done ELSE call'.done[1])
                       /\ ret' = [todo |-> new]
                       /\ (call'.text = <<>> /\ call'.done = <<>>) => ret' = [todo |-> old]
      ]_vars

\* the text of one of two stored todos was set to the empty string, done omitted
C10_Witness ==
    /\ call.op = "update_todo"
    /\ "todo:write" \in call.scopes
    /\ call.text = <<"">> /\ call.done = <<>>
    /\ Len(todos) = 2
    /\ DOMAIN ret = {"todo"} /\ ret.todo.text = "" /\ ret.todo.done = TRUE

====
